---- MODULE Spec2Model ----
(***************************************************************************)
(* Model of the TDAPI client (src/tdapi.js, and its later revision         *)
(* src/unnamed/part_002): the constructor, login(), tokenExpired() and the *)
(* resource operations that call login() before their own request.         *)
(*                                                                         *)
(* Strings stay strings.  An object is the set of its <<field, value>>     *)
(* pairs, a URL is the sequence of the pieces its template concatenates,   *)
(* the clock is Date.now() in milliseconds.  config is the object the      *)
(* constructor was called with.  peer is a second client instance of the   *)
(* same process.                                                           *)
(***************************************************************************)
EXTENDS Integers, Sequences, FiniteSets, TLC

VARIABLES config, credentials, baseUrl, bearerToken, now, calls, peer

vars == <<config, credentials, baseUrl, bearerToken, now, calls, peer>>

(***************************************************************************)
(* Bounds                                                                  *)
(***************************************************************************)
\* number of login() / resource calls the embedding application makes
MaxCalls == 2
\* the clock stops advancing here (milliseconds)
MaxNow == 2500

\* number of login() calls the application makes on the second client
MaxPeerCalls == 1

Calls == 1..MaxCalls

PeerCalls == 1..MaxPeerCalls

(***************************************************************************)
(* Program constants                                                       *)
(***************************************************************************)
\* new Date(decodedToken.exp * 1000)
MsPerSec == 1000

DefaultBaseUrl == "https://api.teamdynamix.com/TDWebAPI/api"

DefaultCredentials == { <<"UserName", "">>, <<"Password", "">> }

(***************************************************************************)
(* Inputs: configurations, tokens the service can answer with, errors      *)
(***************************************************************************)
Undefined == "undefined"

BasicCreds == { <<"UserName", "a">>, <<"Password", "b">> }
AdminCreds == { <<"BEID", "b1">>, <<"WebServicesKey", "k1">> }
BothCreds  == { <<"BEID", "b1">>, <<"WebServicesKey", "k1">>,
                <<"UserName", "a">>, <<"Password", "b">> }

\* the configuration of the README's quick start
QuickStartOptions ==
    [hasCredentials |-> TRUE, credentials |-> BasicCreds, hasBaseUrl |-> TRUE, baseUrl |-> "https://x"]

\* options objects handed to the constructor; hasCredentials = FALSE is an
\* options object without a credentials field.  A credentials value is an
\* object, which is truthy even when empty; a baseUrl value is a string.
OptionsSet ==
    { QuickStartOptions,
      [hasCredentials |-> TRUE,  credentials |-> BasicCreds, hasBaseUrl |-> TRUE,  baseUrl |-> ""],
      [hasCredentials |-> TRUE,  credentials |-> AdminCreds, hasBaseUrl |-> TRUE,  baseUrl |-> "https://x"],
      [hasCredentials |-> TRUE,  credentials |-> BothCreds,  hasBaseUrl |-> FALSE, baseUrl |-> Undefined],
      [hasCredentials |-> FALSE, credentials |-> {},         hasBaseUrl |-> TRUE,  baseUrl |-> "https://x"] }

\* Bearer tokens.  Each is an opaque string; JwtPayload gives what its
\* payload segment decodes to.
\*   TX   : not a signed-token structure (jwt-decode throws)
\*   TN   : decodable, no exp claim
\*   T0   : decodable, exp = 0
\*   T1,T2: decodable, exp = 1 s, 2 s
Tokens == { "T1", "T2", "TN", "T0", "TX" }

\* tokens the authentication service answers with
ServerTokens == { "T1", "T2", "TN" }

TransportErrors == { "ECONNREFUSED", "StatusCodeError401" }

InvalidTokenError == "InvalidTokenError"

JwtPayload(t) ==
    CASE t = "T1" -> [decodable |-> TRUE,  hasExp |-> TRUE,  exp |-> 1]
      [] t = "T2" -> [decodable |-> TRUE,  hasExp |-> TRUE,  exp |-> 2]
      [] t = "T0" -> [decodable |-> TRUE,  hasExp |-> TRUE,  exp |-> 0]
      [] t = "TN" -> [decodable |-> TRUE,  hasExp |-> FALSE, exp |-> 0]
      [] OTHER    -> [decodable |-> FALSE, hasExp |-> FALSE, exp |-> 0]

(***************************************************************************)
(* jwt-decode and tokenExpired                                             *)
(***************************************************************************)
\* jwtDecode(token): the claims of the payload segment, or a throw
jwtDecode(t) ==
    LET p == JwtPayload(t)
    IN  IF p.decodable
        THEN [threw |-> FALSE, hasExp |-> p.hasExp, exp |-> p.exp]
        ELSE [threw |-> TRUE,  hasExp |-> FALSE,    exp |-> 0]

\* if(decodedToken.exp): undefined and 0 are falsy
Truthy(decodedToken) == decodedToken.hasExp /\ decodedToken.exp # 0


\* variant: the expiry check holding a token expired only at the instant of
\* its expiry claim
tokenExpired_atInstant(t, n) ==
    LET decodedToken == jwtDecode(t)
    IN  IF decodedToken.threw THEN "throw"
        ELSE IF Truthy(decodedToken) /\ decodedToken.exp * MsPerSec # n
             THEN "false"
             ELSE "true"

\* variant: the comparison of the expiry check reversed
tokenExpired_reversed(t, n) ==
    LET decodedToken == jwtDecode(t)
    IN  IF decodedToken.threw THEN "throw"
        ELSE IF Truthy(decodedToken) /\ decodedToken.exp * MsPerSec < n
             THEN "false"
             ELSE "true"

\* variant: the expiry check accepting a claim equal to the current time
tokenExpired_inclusive(t, n) ==
    LET decodedToken == jwtDecode(t)
    IN  IF decodedToken.threw THEN "throw"
        ELSE IF Truthy(decodedToken) /\ decodedToken.exp * MsPerSec >= n
             THEN "false"
             ELSE "true"

\* tokenExpired(bearerToken) evaluated when the clock reads n:
\* "throw" when jwtDecode throws, else "false" / "true"
tokenExpired(t, n) ==
    LET decodedToken == jwtDecode(t)
    IN  IF decodedToken.threw THEN "throw"
        ELSE IF Truthy(decodedToken) /\ decodedToken.exp * MsPerSec > n
             THEN "false"
             ELSE "true"

(***************************************************************************)
(* Constructor                                                             *)
(***************************************************************************)

\* the left operand of options.baseUrl || default is used when it is
\* truthy: a missing field, undefined and the empty string are falsy
TruthyString(present, v) == present /\ v # "" /\ v # Undefined

\* variant: the constructor defaulting to an empty administrative key pair
TDAPI_adminDefault(options) ==
    [credentials |-> IF options.hasCredentials THEN options.credentials
                     ELSE { <<"BEID", "">>, <<"WebServicesKey", "">> },
     baseUrl     |-> IF TruthyString(options.hasBaseUrl, options.baseUrl)
                     THEN options.baseUrl
                     ELSE DefaultBaseUrl,
     bearerToken |-> ""]

\* function TDAPI(options): options.credentials || {...}, options.baseUrl || '...'
TDAPI(options) ==
    [credentials |-> IF options.hasCredentials THEN options.credentials
                     ELSE DefaultCredentials,
     baseUrl     |-> IF TruthyString(options.hasBaseUrl, options.baseUrl)
                     THEN options.baseUrl
                     ELSE DefaultBaseUrl,
     bearerToken |-> ""]

(***************************************************************************)
(* login()                                                                 *)
(***************************************************************************)
NoRequest == [method |-> "", url |-> <<>>, form |-> {}]

\* 'BEID' in this.credentials
HasField(obj, f) == \E p \in obj : p[1] = f

\* variant: the endpoint chosen by the absence of UserName instead of the presence of BEID
LoginOptions_byUserName(url, creds) ==
    [method |-> "POST",
     url    |-> <<url, "/auth", IF HasField(creds, "UserName") THEN "/login" ELSE "/loginadmin">>,
     form   |-> creds]

\* variant: the body built from the two fields of the chosen variant only
LoginOptions_pickedFields(url, creds) ==
    [method |-> "POST",
     url    |-> <<url, "/auth", IF HasField(creds, "BEID") THEN "/loginadmin" ELSE "/login">>,
     form   |-> { p \in creds : p[1] \in (IF HasField(creds, "BEID")
                                          THEN {"BEID"}
                                          ELSE {"UserName", "Password"}) }]

\* the options object of the authentication exchange
LoginOptions(url, creds) ==
    [method |-> "POST",
     url    |-> <<url, "/auth", IF HasField(creds, "BEID") THEN "/loginadmin" ELSE "/login">>,
     form   |-> creds]

(***************************************************************************)
(* Resource operations.  Each is described by what its code does:          *)
(*   self   : the object the method belongs to                             *)
(*   login  : the expression it calls to get the token                     *)
(*   param  : the parameter name of the callback that receives the token   *)
(*   auth   : the key under auth: { ... : bearerToken }, "" when the       *)
(*            options carry no auth                                        *)
(*   style  : "then-catch"  login().then(..).catch(handleError)            *)
(*            "then"        login().then(..)                               *)
(*            "async-return" try { await login(); return request(..) }     *)
(*            "async-await"  try { await login(); await request(..) }      *)
(*   method, path : of the request; path = <<>> when no url is given       *)
(*   wrap   : the constructor applied to the response, "" when none        *)
(*   list   : "else"   if(Array.isArray(r)) return r.map(wrap) else return r *)
(*            "noelse" if(Array.isArray(r)) return r.map(wrap)             *)
(*            "no"     the response is handled as one value                *)
(***************************************************************************)
getUser ==
    [name |-> "getUser", self |-> "TDAPI", login |-> "this.login",
     param |-> "bearerToken", auth |-> "bearer", style |-> "then-catch",
     method |-> "GET", path |-> <<"/people/", "uid">>, wrap |-> "User", list |-> "no"]

createAccount ==
    [name |-> "createAccount", self |-> "TDAPI", login |-> "this.login",
     param |-> "bearerToken", auth |-> "", style |-> "then-catch",
     method |-> "POST", path |-> <<"/accounts">>, wrap |-> "Account", list |-> "no"]

editAccount ==
    [name |-> "editAccount", self |-> "TDAPI", login |-> "this.login",
     param |-> "bearerToken", auth |-> "bearer", style |-> "then-catch",
     method |-> "PUT", path |-> <<>>, wrap |-> "", list |-> "no"]

applyDesktop ==
    [name |-> "applyDesktop", self |-> "TDAPI", login |-> "this.login",
     param |-> "bearerToken", auth |-> "bearer", style |-> "then",
     method |-> "POST",
     \* called without isDefault: ${isDefault || false} gives false
     path |-> <<"/people/bulk/applydesktop/", "templateDesktopId", "?isDefault=", "false">>,
     wrap |-> "", list |-> "no"]

getArticle ==
    [name |-> "getArticle", self |-> "TDAPI", login |-> "this.login",
     param |-> "bearerToken", auth |-> "bearer", style |-> "async-await",
     method |-> "GET", path |-> <<"/knowledgebase/", "articleID">>, wrap |-> "Article", list |-> "no"]

getArticles ==
    [name |-> "getArticles", self |-> "TDAPI", login |-> "this.login",
     param |-> "bearerToken", auth |-> "bearer", style |-> "async-return",
     method |-> "POST", path |-> <<"/knowledgebase/search">>, wrap |-> "", list |-> "no"]

User_update ==
    [name |-> "User.update", self |-> "User", login |-> "this.client.login",
     param |-> "bearerToken", auth |-> "bearer", style |-> "then-catch",
     method |-> "POST", path |-> <<"/people/", "UID">>, wrap |-> "User", list |-> "no"]

Ticket_getContacts ==
    [name |-> "Ticket.getContacts", self |-> "Ticket", login |-> "this.client.login",
     param |-> "bearer", auth |-> "bearere", style |-> "then-catch",
     method |-> "GET", path |-> <<"/", "AppID", "/tickets/", "ID", "/contacts">>,
     wrap |-> "User", list |-> "else"]

Ticket_removeContact ==
    [name |-> "Ticket.removeContact", self |-> "Ticket", login |-> "this.cliemt.login",
     param |-> "bearerToken", auth |-> "bearer", style |-> "then-catch",
     method |-> "DELETE",
     path |-> <<"/", "AppID", "/tickets/", "ID", "/contacts/", "contactUid">>,
     wrap |-> "", list |-> "no"]

Asset_update ==
    [name |-> "Asset.update", self |-> "Asset", login |-> "this.login",
     param |-> "bearerToken", auth |-> "bearer", style |-> "then-catch",
     method |-> "POST", path |-> <<"/assets/", "ID">>, wrap |-> "", list |-> "no"]


Asset_removeResource ==
    [name |-> "Asset.removeResource", self |-> "Asset", login |-> "this.login",
     param |-> "bearerToken", auth |-> "bearer", style |-> "then-catch",
     method |-> "DELETE", path |-> <<"/assets/", "ID", "/users/", "resourceId">>,
     wrap |-> "", list |-> "no"]

Asset_addResource ==
    [name |-> "Asset.addResource", self |-> "Asset", login |-> "this.login",
     param |-> "bearerToken", auth |-> "bearer", style |-> "then-catch",
     method |-> "POST", path |-> <<"/assets/", "ID", "/users/", "resourceId">>,
     wrap |-> "", list |-> "no"]

Article_getRelated ==
    [name |-> "Article.getRelated", self |-> "Article", login |-> "this.client.login",
     param |-> "bearerToken", auth |-> "bearer", style |-> "async-return",
     method |-> "GET", path |-> <<"/knowledgebase/", "ID", "/related">>, wrap |-> "", list |-> "no"]

getUsers ==
    [name |-> "getUsers", self |-> "TDAPI", login |-> "this.login",
     param |-> "bearerToken", auth |-> "bearer", style |-> "then-catch",
     method |-> "POST", path |-> <<"/people/search">>, wrap |-> "User", list |-> "else"]

getAccounts ==
    [name |-> "getAccounts", self |-> "TDAPI", login |-> "this.login",
     param |-> "bearerToken", auth |-> "bearer", style |-> "then-catch",
     method |-> "GET", path |-> <<"/accounts">>, wrap |-> "Account", list |-> "else"]

searchAccounts ==
    [name |-> "searchAccounts", self |-> "TDAPI", login |-> "this.login",
     param |-> "bearerToken", auth |-> "bearer", style |-> "then-catch",
     method |-> "POST", path |-> <<"/accounts/search">>, wrap |-> "Account",
     list |-> "else"]

getAssets ==
    [name |-> "getAssets", self |-> "TDAPI", login |-> "this.login",
     param |-> "bearerToken", auth |-> "bearer", style |-> "then-catch",
     method |-> "POST", path |-> <<"/assets/search">>, wrap |-> "Asset", list |-> "else"]

User_getTickets ==
    [name |-> "User.getTickets", self |-> "User", login |-> "this.client.login",
     param |-> "bearerToken", auth |-> "bearer", style |-> "then-catch",
     method |-> "POST", path |-> <<"/", "appId", "/tickets/search">>, wrap |-> "Ticket",
     list |-> "noelse"]

getLocation ==
    [name |-> "getLocation", self |-> "TDAPI", login |-> "this.login",
     param |-> "bearerToken", auth |-> "bearer", style |-> "then-catch",
     method |-> "GET", path |-> <<"/locations/", "id">>, wrap |-> "Location",
     list |-> "no"]

Operations ==
    { getUser, createAccount, editAccount, applyDesktop, getArticle, getArticles,
      User_update, Ticket_getContacts, Ticket_removeContact, Asset_update,
      Asset_removeResource, Asset_addResource, Article_getRelated }

\* the operations that build resource objects from the response
WrapOperations ==
    { getUsers, getAccounts, searchAccounts, getAssets, User_getTickets,
      getLocation, getArticle }

OpOf(name) == CHOOSE o \in Operations \cup WrapOperations : o.name = name

\* only the client has a login method, and the resource objects hold the
\* client in their field "client"
LoginReachable(o) ==
    \/ o.self = "TDAPI" /\ o.login = "this.login"
    \/ o.self # "TDAPI" /\ o.login = "this.client.login"

TypeError == "TypeError"

ReferenceError == "ReferenceError"

\* request() called with options that have no url: "options.uri is a required argument"
RequestError == "RequestError"

NoResource == [method |-> "", url |-> <<>>, hasAuth |-> FALSE, bearer |-> ""]

\* the options object of the resource request of operation o, built by the
\* callback that received token t; request() sends the bearer header only
\* for the key auth.bearer
RequestOptions(o, base, t) ==
    [method  |-> o.method,
     url     |-> IF o.path = <<>> THEN <<>> ELSE <<base>> \o o.path,
     hasAuth |-> o.auth = "bearer",
     bearer  |-> IF o.auth = "bearer" THEN t ELSE ""]

(***************************************************************************)
(* Responses and resource objects.  A response body is a JSON array of     *)
(* items or one JSON object; an item or object is the set of its           *)
(* <<field, value>> pairs.                                                 *)
(***************************************************************************)
ObjectBody(fields) == [isArray |-> FALSE, items |-> <<>>, fields |-> fields]

ArrayBody(items) == [isArray |-> TRUE, items |-> items, fields |-> {}]

\* an item as the service returns it; ParentID is a field of the service's
\* account that the Account class does not document
Item1 == { <<"ID", "1">>, <<"Name", "a">>, <<"ParentID", "9">> }

Item2 == { <<"ID", "2">>, <<"Name", "b">>, <<"IsActive", "true">> }

\* A property whose value is a primitive is the pair <<name, value>>.  A
\* property whose value has typeof "object" is a triple: <<name, value,
\* "object">> for an object or an array, <<name, {}, "null">> for null.
IsObjectValued(p) == Len(p) = 3

\* items whose keys meet a property the object already has: the client
\* binding, and the __proto__ accessor with an object, null and a primitive
Item3 == { <<"ID", "3">>, <<"client", "other">> }

Item4 == { <<"ID", "4">>, <<"__proto__", { <<"Name", "n">> }, "object">> }

Item5 == { <<"ID", "5">>, <<"__proto__", {}, "null">> }

Item6 == { <<"ID", "6">>, <<"__proto__", "x">> }

\* an answer that is not the resource asked for
MessageFields == { <<"Message", "m">> }

\* bodies the service answers the request of a single resource with
Bodies == { ObjectBody(Item1) }

ObjectBodies ==
    { ObjectBody(Item1), ObjectBody(MessageFields), ObjectBody(Item5), ObjectBody(Item6) }

\* bodies the service answers a search or a listing with
ListBodies ==
    { ArrayBody(<<Item1, Item2>>), ArrayBody(<<Item3, Item4>>), ArrayBody(<<>>),
      ObjectBody(MessageFields) }

\* the client object the calls are made on
Client == "td"

validAccountAttributes ==
    { "ID", "Name", "IsActive", "Address1", "Address2", "Address3", "Address4",
      "City", "StateName", "StateAbbr", "PostalCode", "Country", "Phone", "Fax",
      "Url", "Notes", "CreatedDate", "ModifiedDate", "Code", "IndustryID",
      "IndustryName", "Domain" }

\* for(var property in properties) this[property] = properties[property]
User_init(properties) == properties

Ticket_init(properties) == properties

Location_init(properties) == properties

Asset_init(properties) == properties

Article_init(properties) == properties

\* for(var property in properties)
\*   if(validAccountAttributes.indexOf(property) > -1) this[property] = ...
Account_init(properties) == { p \in properties : p[1] \in validAccountAttributes }

\* the assignments this[property] = ... that the init of the class makes
Assigned(class, properties) ==
    CASE class = "User"     -> User_init(properties)
      [] class = "Account"  -> Account_init(properties)
      [] class = "Ticket"   -> Ticket_init(properties)
      [] class = "Location" -> Location_init(properties)
      [] class = "Asset"    -> Asset_init(properties)
      [] class = "Article"  -> Article_init(properties)

\* names whose assignment does not create an own enumerable field:
\* "client" is the non-enumerable binding, "__proto__" is the accessor
\* inherited from Object.prototype
NotAField == { "client", "__proto__" }

\* new C(client, properties): this.client = client, made non-enumerable but
\* left writable, then init.  An assignment to "client" by init replaces the
\* binding.  An assignment to "__proto__" goes to the prototype setter: an
\* object or null replaces the prototype, so that the result is no longer an
\* instance of C, and a primitive value is ignored.  The other assignments
\* are the object's fields.
New(class, client, properties) ==
    LET assigned == Assigned(class, properties)
    IN  [class  |-> IF \E p \in assigned : p[1] = "__proto__" /\ IsObjectValued(p)
                    THEN "Object"
                    ELSE class,
         client |-> IF HasField(assigned, "client")
                    THEN (CHOOSE p \in assigned : p[1] = "client")[2]
                    ELSE client,
         fields |-> { p \in assigned : p[1] \notin NotAField }]

\* the properties for(var property in r) enumerates on response body r: the
\* fields of an object, the indices of an array
Properties(b) ==
    IF b.isArray
    THEN { <<ToString(i - 1), b.items[i], "object">> : i \in 1..Len(b.items) }
    ELSE b.fields

\* what the promise of a resource operation resolves to
NoBody == ObjectBody({})

UndefinedValue == [kind |-> "undefined", items |-> <<>>, body |-> NoBody]

\* the response itself
ResponseValue(b) == [kind |-> "response", items |-> <<>>, body |-> b]

\* one resource object
ObjectValue(obj) == [kind |-> "object", items |-> <<obj>>, body |-> NoBody]

\* an array of resource objects
ArrayValue(objs) == [kind |-> "array", items |-> objs, body |-> NoBody]

\* the last .then callback of operation o applied to response body b
Wrap(o, b) ==
    IF o.list \in {"else", "noelse"}
    THEN IF b.isArray
         THEN ArrayValue([i \in 1..Len(b.items) |-> New(o.wrap, Client, b.items[i])])
         ELSE IF o.list = "else" THEN ResponseValue(b) ELSE UndefinedValue
    ELSE IF o.wrap = "" THEN ResponseValue(b)
    ELSE ObjectValue(New(o.wrap, Client, Properties(b)))

\* a call that has not been made yet
IdleCall ==
    [op       |-> "",          \* "login" or the name of a resource operation
     pc       |-> "idle",      \* idle, exchange, then, catch, request, refused, resolved,
                               \* rejected, threw
     nreq     |-> 0,           \* authentication requests issued by this call
     req      |-> NoRequest,   \* the authentication request
     tok      |-> "",          \* the token login() resolved to
     lerr     |-> "",          \* the error login() rejected with
     rnreq    |-> 0,           \* resource requests issued by this call
     rreq     |-> NoResource,  \* the options handed to request()
     value    |-> "",          \* what the call's promise resolved to: a token
                               \* for login(), a value as above for an operation
     err      |-> "",          \* what the call's promise rejected with, or the throw
     unhandled |-> "",         \* the error of a rejected promise nobody handles
     exited   |-> FALSE]       \* the process ended on that unhandled rejection

Settled(c) == calls[c].pc \in {"resolved", "rejected", "threw"}

SettledCalls == { c \in Calls : Settled(c) }

\* the process has not ended
Running == \A c \in Calls : ~calls[c].exited

\* a callback of a settled login() promise is queued: the .then callback or
\* the continuation after await (pc "then"), the rejection handler or the
\* catch block (pc "catch")
CallbackQueued == \E c \in Calls : calls[c].pc \in {"then", "catch"}

\* a rejected promise without a handler is waiting to be reported
RejectionPending == \E c \in Calls : calls[c].unhandled # "" /\ ~calls[c].exited

\* catch (err) { handleError(err); } of an async function: the rejected
\* promise handleError returns is dropped, and the function falls off its
\* end, so its promise resolves to undefined
CatchBlock(call, e) ==
    [call EXCEPT !.pc = "resolved", !.value = UndefinedValue, !.unhandled = e]


\* variant: an error handler that rejects with a generic error of its own
handleError_generic(call, e) == [call EXCEPT !.pc = "rejected", !.err = "Error"]

\* .catch(handleError): return Promise.reject(err)
handleError(call, e) == [call EXCEPT !.pc = "rejected", !.err = e]

\* the callback given to login().then(...) of a resource operation, run with
\* the token login() resolved to: it builds the request options and hands
\* them to request()
ThenCallback(call, base) ==
    LET o == OpOf(call.op)
    IN  IF o.auth # "" /\ o.param # "bearerToken"
        THEN \* the options read a variable that is not declared
             IF o.style \in {"then-catch", "then"}
             THEN handleError(call, ReferenceError)
             ELSE CatchBlock(call, ReferenceError)
        ELSE IF RequestOptions(o, base, call.tok).url = <<>>
        THEN \* request() refuses options without a url and sends nothing; the
             \* promise it returned is rejected in a later turn
             [call EXCEPT !.pc = "refused", !.rreq = RequestOptions(o, base, call.tok)]
        ELSE [call EXCEPT !.pc = "request", !.rnreq = call.rnreq + 1,
                          !.rreq = RequestOptions(o, base, call.tok)]



\* variant: a .then callback that records the token and never calls resolve
LoginResolved_pending(call, t) ==
    IF call.op = "login"
    THEN [call EXCEPT !.tok = t]
    ELSE [call EXCEPT !.pc = "then", !.tok = t]

\* variant: resolve(this.bearerToken), the field, instead of the response
LoginResolved_fromField(call, t) ==
    IF call.op = "login"
    THEN [call EXCEPT !.pc = "resolved", !.tok = bearerToken, !.value = bearerToken]
    ELSE [call EXCEPT !.pc = "then", !.tok = bearerToken]

\* login()'s promise resolved with token t.  For login() called by the
\* application that is the outcome of the call; inside a resource operation
\* it queues the operation's callback
LoginResolved(call, t) ==
    IF call.op = "login"
    THEN [call EXCEPT !.pc = "resolved", !.tok = t, !.value = t]
    ELSE [call EXCEPT !.pc = "then", !.tok = t]

\* variant: a failed exchange retried once before giving up
LoginRejected_retry(call, e) ==
    IF call.op = "login" /\ call.pc = "exchange" /\ call.nreq < 2
    THEN [call EXCEPT !.nreq = call.nreq + 1]
    ELSE IF call.op = "login"
    THEN [call EXCEPT !.pc = "rejected", !.lerr = e, !.err = e]
    ELSE [call EXCEPT !.pc = "catch", !.lerr = e]

\* login()'s promise rejected with e.  Inside a resource operation it queues
\* the operation's rejection handler
LoginRejected(call, e) ==
    IF call.op = "login"
    THEN [call EXCEPT !.pc = "rejected", !.lerr = e, !.err = e]
    ELSE [call EXCEPT !.pc = "catch", !.lerr = e]

\* what a resource operation does with the rejection of its login():
\* .catch(handleError) rejects with it, a chain without .catch passes it on,
\* and the catch block of an async function swallows it
RejectionHandler(call) ==
    IF OpOf(call.op).style = "then-catch" THEN handleError(call, call.lerr)
    ELSE IF OpOf(call.op).style = "then"
    THEN [call EXCEPT !.pc = "rejected", !.err = call.lerr]
    ELSE CatchBlock(call, call.lerr)


\* variant: a single-flight guard, a login() started while another exchange
\* is outstanding waits for that exchange instead of starting its own
LoginExecutor_singleFlight(call, stored, creds, base, n) ==
    IF stored # "" /\ tokenExpired(stored, n) = "throw"
    THEN LoginRejected(call, InvalidTokenError)
    ELSE IF stored # "" /\ tokenExpired(stored, n) = "false"
    THEN LoginResolved(call, stored)
    ELSE IF \E d \in Calls : calls[d].pc = "exchange"
    THEN [call EXCEPT !.pc = "exchange"]
    ELSE [call EXCEPT !.pc = "exchange", !.nreq = call.nreq + 1,
                      !.req = LoginOptions(base, creds)]

\* The executor of login()'s promise: it runs synchronously inside login().
\* A throw inside the executor rejects the promise.
LoginExecutor(call, stored, creds, base, n) ==
    LET started == call
    IN  IF stored # "" /\ tokenExpired(stored, n) = "throw"
        THEN LoginRejected(started, InvalidTokenError)
        ELSE IF stored # "" /\ tokenExpired(stored, n) = "false"
        THEN LoginResolved(started, stored)
        ELSE [started EXCEPT !.pc = "exchange", !.nreq = call.nreq + 1,
                             !.req = LoginOptions(base, creds)]


\* variant: the second module keeping a token without an expiry claim
tokenExpired2_cachesWithoutClaim(t, n) ==
    LET decodedToken == jwtDecode(t)
    IN  IF decodedToken.threw THEN "throw"
        ELSE IF Truthy(decodedToken)
             THEN (IF decodedToken.exp * MsPerSec > n THEN "false" ELSE "true")
             ELSE "false"

\* tokenExpired of the second top-level module (src/unnamed/part_002)
tokenExpired2(t, n) ==
    LET decodedToken == jwtDecode(t)
    IN  IF decodedToken.threw THEN "throw"
        ELSE IF Truthy(decodedToken)
             THEN (IF decodedToken.exp * MsPerSec > n THEN "false" ELSE "true")
             ELSE "true"

\* the executor of login() of the second top-level module
LoginExecutor2(call, stored, creds, base, n) ==
    IF stored # "" /\ tokenExpired2(stored, n) = "throw"
    THEN LoginRejected(call, InvalidTokenError)
    ELSE IF stored # "" /\ tokenExpired2(stored, n) = "false"
    THEN LoginResolved(call, stored)
    ELSE [call EXCEPT !.pc = "exchange", !.nreq = call.nreq + 1,
                      !.req = LoginOptions(base, creds)]


\* variant: the .then callback assigning this.bearerToken before resolving
StoredAfterExchange_stores(stored, t) == t

\* the token field after the exchange of a login() answered with token t:
\* the .then callback only resolves the promise
StoredAfterExchange(stored, t) == stored


\* a second client of the same process, built by its own call of the
\* constructor from the README's configuration: its token field and the
\* login() calls made on it
FreshPeer ==
    [bearerToken |-> TDAPI(QuickStartOptions).bearerToken,
     calls       |-> [c \in PeerCalls |-> IdleCall]]

\* a call may start once the calls before it have started
MayStart(c) ==
    /\ calls[c].pc = "idle"
    /\ \A d \in Calls : d < c => calls[d].pc # "idle"

\* the application calls login()
Login(c) ==
    /\ Running
    /\ MayStart(c)
    /\ calls' = [calls EXCEPT ![c] =
                   LoginExecutor([calls[c] EXCEPT !.op = "login"],
                                 bearerToken, credentials, baseUrl, now)]
    /\ UNCHANGED <<config, credentials, baseUrl, bearerToken, now, peer>>

\* the application calls a resource operation
Operation(c, o) ==
    /\ Running
    /\ MayStart(c)
    /\ calls' = [calls EXCEPT ![c] =
                   IF LoginReachable(o)
                   THEN LoginExecutor([calls[c] EXCEPT !.op = o.name],
                                      bearerToken, credentials, baseUrl, now)
                   ELSE IF o.style \in {"then-catch", "then"}
                   THEN [calls[c] EXCEPT !.op = o.name, !.pc = "threw", !.err = TypeError]
                   ELSE \* the call of login() is inside the try block
                        CatchBlock([calls[c] EXCEPT !.op = o.name], TypeError)]
    /\ UNCHANGED <<config, credentials, baseUrl, bearerToken, now, peer>>


\* the application calls login() on the second client
PeerLogin(c) ==
    /\ Running
    /\ peer.calls[c].pc = "idle"
    /\ \A d \in PeerCalls : d < c => peer.calls[d].pc # "idle"
    /\ peer' = [peer EXCEPT !.calls[c] =
                  LoginExecutor([peer.calls[c] EXCEPT !.op = "login"],
                                peer.bearerToken,
                                TDAPI(QuickStartOptions).credentials,
                                TDAPI(QuickStartOptions).baseUrl, now)]
    /\ UNCHANGED <<config, credentials, baseUrl, bearerToken, now, calls>>

\* the exchange of a login() of the second client is answered with token t
PeerExchangeOk(c, t) ==
    /\ Running
    /\ peer.calls[c].pc = "exchange"
    /\ peer' = [peer EXCEPT
                  !.calls[c] = LoginResolved(peer.calls[c], t),
                  !.bearerToken = StoredAfterExchange(peer.bearerToken, t)]
    /\ UNCHANGED <<config, credentials, baseUrl, bearerToken, now, calls>>

\* the exchange of a login() of the second client fails
PeerExchangeFail(c, e) ==
    /\ Running
    /\ peer.calls[c].pc = "exchange"
    /\ peer' = [peer EXCEPT !.calls[c] = LoginRejected(peer.calls[c], e)]
    /\ UNCHANGED <<config, credentials, baseUrl, bearerToken, now, calls>>

\* variant: the token kept in a variable of the module, one for all clients
ExchangeOk_sharedSlot(c, t) ==
    /\ Running
    /\ calls[c].pc = "exchange"
    /\ calls' = [calls EXCEPT ![c] = LoginResolved(calls[c], t)]
    /\ bearerToken' = t
    /\ peer' = [peer EXCEPT !.bearerToken = t]
    /\ UNCHANGED <<config, credentials, baseUrl, now>>

\* the queued callback of a resource operation runs with the token its
\* login() resolved to
Callback(c) ==
    /\ Running
    /\ calls[c].pc = "then"
    /\ calls' = [calls EXCEPT ![c] = ThenCallback(calls[c], baseUrl)]
    /\ UNCHANGED <<config, credentials, baseUrl, bearerToken, now, peer>>

\* the queued rejection handler of a resource operation runs with the error
\* its login() rejected with
Handler(c) ==
    /\ Running
    /\ calls[c].pc = "catch"
    /\ calls' = [calls EXCEPT ![c] = RejectionHandler(calls[c])]
    /\ UNCHANGED <<config, credentials, baseUrl, bearerToken, now, peer>>

\* once the queued callbacks have run, the runtime reports the rejected
\* promises nobody handles, and the process ends
ProcessExit ==
    /\ Running /\ ~CallbackQueued /\ RejectionPending
    /\ calls' = [c \in Calls |->
                   IF calls[c].unhandled # ""
                   THEN [calls[c] EXCEPT !.exited = TRUE]
                   ELSE calls[c]]
    /\ UNCHANGED <<config, credentials, baseUrl, bearerToken, now, peer>>

\* request(options).then(bearerToken => resolve(bearerToken))
ExchangeOk(c, t) ==
    /\ Running
    /\ calls[c].pc = "exchange"
    /\ calls' = [calls EXCEPT ![c] = LoginResolved(calls[c], t)]
    /\ bearerToken' = StoredAfterExchange(bearerToken, t)
    /\ UNCHANGED <<config, credentials, baseUrl, now, peer>>


\* variant: a failed exchange wipes the configured credentials
ExchangeFail_wipes(c, e) ==
    /\ Running
    /\ calls[c].pc = "exchange"
    /\ calls' = [calls EXCEPT ![c] = LoginRejected(calls[c], e)]
    /\ credentials' = DefaultCredentials
    /\ UNCHANGED <<config, baseUrl, bearerToken, now, peer>>

\* request(options).catch(err => reject(err))
ExchangeFail(c, e) ==
    /\ Running
    /\ calls[c].pc = "exchange"
    /\ calls' = [calls EXCEPT ![c] = LoginRejected(calls[c], e)]
    /\ UNCHANGED <<config, credentials, baseUrl, bearerToken, now, peer>>

\* the resource request is answered with a body
ResourceOk(c, body) ==
    /\ Running
    /\ calls[c].pc = "request"
    /\ calls' = [calls EXCEPT ![c].pc = "resolved",
                              ![c].value = Wrap(OpOf(calls[c].op), body)]
    /\ UNCHANGED <<config, credentials, baseUrl, bearerToken, now, peer>>

\* what a resource operation does with the rejection of the promise
\* request() returned: the catch block of an async function swallows it,
\* .catch(handleError) rejects with it, a chain without .catch passes it on
RequestRejected(call, e) ==
    IF OpOf(call.op).style = "async-await" THEN CatchBlock(call, e)
    ELSE IF OpOf(call.op).style = "then-catch" THEN handleError(call, e)
    ELSE [call EXCEPT !.pc = "rejected", !.err = e]

\* the resource request fails
ResourceFail(c, e) ==
    /\ Running
    /\ calls[c].pc = "request"
    /\ calls' = [calls EXCEPT ![c] = RequestRejected(calls[c], e)]
    /\ UNCHANGED <<config, credentials, baseUrl, bearerToken, now, peer>>

\* the promise of a request() that refused its options is rejected
RequestRefused(c) ==
    /\ Running
    /\ calls[c].pc = "refused"
    /\ calls' = [calls EXCEPT ![c] = RequestRejected(calls[c], RequestError)]
    /\ UNCHANGED <<config, credentials, baseUrl, bearerToken, now, peer>>

\* time passes: half a second or a second
Tick ==
    /\ Running
    /\ \E d \in {MsPerSec \div 2, MsPerSec} :
         /\ now + d <= MaxNow
         /\ now' = now + d
    /\ UNCHANGED <<config, credentials, baseUrl, bearerToken, calls, peer>>

(***************************************************************************)
(* Specifications                                                          *)
(***************************************************************************)
\* a freshly constructed client
Init ==
    /\ \E o \in OptionsSet :
         /\ config = o
         /\ credentials = TDAPI(o).credentials
         /\ baseUrl = TDAPI(o).baseUrl
         /\ bearerToken = TDAPI(o).bearerToken
    /\ now = 0
    /\ calls = [c \in Calls |-> IdleCall]
    /\ peer = FreshPeer

Next ==
    \/ \E c \in Calls : Login(c)
    \/ \E c \in Calls, t \in ServerTokens : ExchangeOk(c, t)
    \/ \E c \in Calls, e \in TransportErrors : ExchangeFail(c, e)
    \/ Tick

Spec == Init /\ [][Next]_vars

\* The whole client: login() and the resource operations of a client built
\* from the README's configuration.  Such a client holds no token, so the
\* clock is never read and stays where it is.
InitOps ==
    /\ config = QuickStartOptions
    /\ credentials = TDAPI(QuickStartOptions).credentials
    /\ baseUrl = TDAPI(QuickStartOptions).baseUrl
    /\ bearerToken = TDAPI(QuickStartOptions).bearerToken
    /\ now = 0
    /\ calls = [c \in Calls |-> IdleCall]
    /\ peer = FreshPeer

\* tokens the service answers the exchanges of SpecOps with: two, so that a
\* call's own token differs from another call's
OpsTokens == { "T1", "T2" }

\* the error a refused exchange of SpecOps fails with
OpsExchangeErrors == { "StatusCodeError401" }

NextOps ==
    \/ \E c \in Calls : Login(c)
    \/ \E c \in Calls, o \in Operations : Operation(c, o)
    \/ \E c \in Calls : Callback(c)
    \/ \E c \in Calls : Handler(c)
    \/ \E c \in Calls : RequestRefused(c)
    \/ ProcessExit
    \/ \E c \in Calls, t \in OpsTokens : ExchangeOk(c, t)
    \/ \E c \in Calls, e \in OpsExchangeErrors : ExchangeFail(c, e)
    \/ \E c \in Calls, b \in Bodies : ResourceOk(c, b)
    \/ \E c \in Calls, e \in TransportErrors : ResourceFail(c, e)

SpecOps == InitOps /\ [][NextOps]_vars

\* a client whose token field holds a token: login() is a function of the
\* held token and the clock, and the field is a public property of the client
InitHeld ==
    /\ \E o \in OptionsSet :
         /\ config = o
         /\ credentials = TDAPI(o).credentials
         /\ baseUrl = TDAPI(o).baseUrl
    /\ bearerToken \in Tokens
    /\ now = 0
    /\ calls = [c \in Calls |-> IdleCall]
    /\ peer = FreshPeer

SpecHeld == InitHeld /\ [][Next]_vars


\* the transport answers the exchange of call c, with a token or with an error
Answer(c) ==
    \/ \E t \in ServerTokens : ExchangeOk(c, t)
    \/ \E e \in TransportErrors : ExchangeFail(c, e)

\* SpecHeld with a transport that eventually answers every exchange it was
\* sent: request() settles its promise once the service answers or the
\* connection fails
SpecHeldLive == InitHeld /\ [][Next]_vars /\ \A c \in Calls : WF_vars(Answer(c))


\* tokens an application put into the token field of a client
HeldTokens == { "", "T1", "T2" }

\* two clients of one process, each built from the README's configuration
InitPeers ==
    /\ config = QuickStartOptions
    /\ credentials = TDAPI(QuickStartOptions).credentials
    /\ baseUrl = TDAPI(QuickStartOptions).baseUrl
    /\ bearerToken \in HeldTokens
    /\ now = 0
    /\ calls = [c \in Calls |-> IdleCall]
    /\ \E t \in HeldTokens : peer = [FreshPeer EXCEPT !.bearerToken = t]

NextPeers ==
    \/ \E c \in Calls : Login(c)
    \/ \E c \in Calls, t \in ServerTokens : ExchangeOk(c, t)
    \/ \E c \in Calls, e \in TransportErrors : ExchangeFail(c, e)
    \/ \E c \in PeerCalls : PeerLogin(c)
    \/ \E c \in PeerCalls, t \in ServerTokens : PeerExchangeOk(c, t)
    \/ \E c \in PeerCalls, e \in TransportErrors : PeerExchangeFail(c, e)
    \/ Tick

SpecPeers == InitPeers /\ [][NextPeers]_vars

\* the bodies the service answers the request of operation o with
BodiesFor(o) == IF o.list = "no" THEN ObjectBodies ELSE ListBodies

\* the operations that build resource objects, on a client built from the
\* README's configuration whose exchanges are answered with one token
NextWrap ==
    \/ \E c \in Calls, o \in WrapOperations : Operation(c, o)
    \/ \E c \in Calls : Callback(c)
    \/ \E c \in Calls : Handler(c)
    \/ ProcessExit
    \/ \E c \in Calls : ExchangeOk(c, "T1")
    \/ \E c \in Calls, e \in TransportErrors : ExchangeFail(c, e)
    \/ \E c \in Calls :
         /\ calls[c].pc = "request"
         /\ \E b \in BodiesFor(OpOf(calls[c].op)) : ResourceOk(c, b)
    \/ \E c \in Calls, e \in TransportErrors : ResourceFail(c, e)

SpecWrap == InitOps /\ [][NextWrap]_vars

TypeOK ==
    /\ bearerToken \in Tokens \cup {""}
    /\ now \in 0..MaxNow
    /\ \A c \in Calls : calls[c].pc \in {"idle", "exchange", "then", "catch", "request",
                                          "refused", "resolved", "rejected", "threw"}

(***************************************************************************)
(* Vocabulary of the claims, stated on the token's payload                 *)
(***************************************************************************)
Decodable(t) == JwtPayload(t).decodable

CarriesExp(t) == JwtPayload(t).decodable /\ JwtPayload(t).hasExp

\* the expiry claim of t, as a timestamp, is strictly after time n
ExpiryAfter(t, n) == CarriesExp(t) /\ JwtPayload(t).exp * 1000 > n

\* the expiry claim of t, as a timestamp, is at or before time n
ExpiryAtOrBefore(t, n) == CarriesExp(t) /\ JwtPayload(t).exp * 1000 <= n

IsLogin(c) == calls[c].op = "login"

\* authentication exchanges issued so far
TotalExchanges == calls[1].nreq + (IF MaxCalls >= 2 THEN calls[2].nreq ELSE 0)
                  + (IF MaxCalls >= 3 THEN calls[3].nreq ELSE 0)
                  + (IF MaxCalls >= 4 THEN calls[4].nreq ELSE 0)

\* in the step, call c resolves as a cache hit: the held token, no request
CacheHitStep(c) ==
    /\ calls'[c].pc = "resolved"
    /\ calls'[c].value = bearerToken
    /\ calls'[c].nreq = 0
    /\ calls'[c].req = NoRequest
    /\ bearerToken' = bearerToken

\* in the step, call c issues exactly one authentication exchange
ExchangeStep(c) ==
    /\ calls'[c].pc = "exchange"
    /\ calls'[c].nreq = 1

(***************************************************************************)
(* Claims                                                                  *)
(***************************************************************************)
\* C1: on a fresh client, once the first login() has resolved through an
\* exchange with a token whose expiry claim is strictly in the future, a
\* second login() made before that expiry resolves to the same token and
\* the number of exchanges stays 1.
C1_RoundTrip ==
    [][ ( /\ Login(2)
          /\ IsLogin(1) /\ calls[1].pc = "resolved" /\ calls[1].nreq = 1
          /\ ExpiryAfter(calls[1].value, now) )
        => ( /\ calls'[2].pc = "resolved"
             /\ calls'[2].value = calls[1].value
             /\ calls'[2].nreq = 0
             /\ TotalExchanges' = 1 ) ]_vars

\* C2: after every successful exchange of login(), the stored token equals
\* the token the exchange returned.
C2_StoredEqualsReturned ==
    [][ \A c \in Calls, t \in ServerTokens :
          (ExchangeOk(c, t) /\ IsLogin(c)) => bearerToken' = t ]_vars

\* C3: when the client holds a non-empty token whose expiry claim is strictly
\* after the current time, login() resolves to the held token, issues no
\* request and leaves the stored token unchanged.
C3_CacheHit ==
    [][ \A c \in Calls :
          (Login(c) /\ bearerToken # "" /\ ExpiryAfter(bearerToken, now))
          => CacheHitStep(c) ]_vars

\* C3 witness: a login() that resolved to the held, unexpired token without a request
C3_Witness ==
    \E c \in Calls :
        /\ IsLogin(c) /\ calls[c].pc = "resolved" /\ calls[c].nreq = 0
        /\ bearerToken # "" /\ calls[c].value = bearerToken
        /\ ExpiryAfter(bearerToken, now)

\* C4: when the client holds a token whose expiry claim is at or before the
\* current time, the next login() issues exactly one exchange and, when the
\* exchange succeeds, the new token replaces the stored one and is the value
\* returned.
C4_ExpiredRefresh ==
    [][ /\ \A c \in Calls :
             (Login(c) /\ bearerToken # "" /\ ExpiryAtOrBefore(bearerToken, now))
             => ExchangeStep(c)
        /\ \A c \in Calls, t \in ServerTokens :
             (ExchangeOk(c, t) /\ IsLogin(c) /\ bearerToken # ""
                /\ ExpiryAtOrBefore(bearerToken, now))
             => ( /\ calls'[c].pc = "resolved" /\ calls'[c].value = t
                  /\ calls'[c].nreq = 1
                  /\ bearerToken' = t ) ]_vars

\* C5: every exchange of login() is a POST to {baseUrl}/auth/loginadmin if
\* and only if the credentials contain the field BEID, and otherwise a POST
\* to {baseUrl}/auth/login; also for credentials with both BEID and UserName.
C5_Endpoint ==
    \A c \in Calls :
        calls[c].nreq > 0 =>
            /\ calls[c].req.method = "POST"
            /\ calls[c].req.url \in { <<baseUrl, "/auth", "/loginadmin">>,
                                      <<baseUrl, "/auth", "/login">> }
            /\ (calls[c].req.url = <<baseUrl, "/auth", "/loginadmin">>
                  <=> "BEID" \in { p[1] : p \in credentials })

\* C5 witness: an exchange issued with credentials that carry both BEID and UserName
C5_Witness ==
    \E c \in Calls :
        /\ calls[c].nreq > 0
        /\ {"BEID", "UserName"} \subseteq { p[1] : p \in credentials }

\* C6: the form body of every exchange of login() is exactly the credentials
\* object configured at construction; for {BEID, WebServicesKey} exactly
\* those two fields with their values.
C6_Body ==
    \A c \in Calls :
        calls[c].nreq > 0 =>
            /\ calls[c].req.form = credentials
            /\ \E o \in OptionsSet :
                 calls[c].req.form = (IF o.hasCredentials THEN o.credentials
                                      ELSE { <<"UserName", "">>, <<"Password", "">> })
            /\ ({ p[1] : p \in credentials } = {"BEID", "WebServicesKey"}
                  => calls[c].req.form = { <<"BEID", "b1">>, <<"WebServicesKey", "k1">> })

\* C6 witness: an exchange issued with the credentials {BEID, WebServicesKey}
C6_Witness ==
    \E c \in Calls :
        /\ calls[c].nreq > 0
        /\ { p[1] : p \in credentials } = {"BEID", "WebServicesKey"}

\* C7: when the authentication request fails, login() rejects with exactly
\* the transport's error, has issued exactly one request and leaves the
\* stored token unchanged.
C7_TransportFailure ==
    [][ \A c \in Calls, e \in TransportErrors :
          (ExchangeFail(c, e) /\ IsLogin(c))
          => ( /\ calls'[c].pc = "rejected"
               /\ calls'[c].err = e
               /\ calls'[c].nreq = 1
               /\ bearerToken' = bearerToken ) ]_vars

\* C7 witness: a login() rejected with the transport's error after one request
C7_Witness ==
    \E c \in Calls :
        /\ IsLogin(c) /\ calls[c].pc = "rejected"
        /\ calls[c].err \in TransportErrors /\ calls[c].nreq = 1

\* C8: when the client holds a non-empty token that does not decode, login()
\* does not fail because of it: it returns the held token or starts an exchange.
C8_MalformedHeld ==
    [][ \A c \in Calls :
          (Login(c) /\ bearerToken # "" /\ ~Decodable(bearerToken))
          => \/ calls'[c].pc = "resolved" /\ calls'[c].value = bearerToken
             \/ calls'[c].pc = "exchange" ]_vars

\* C9: for a decodable token, tokenExpired is false if and only if the token
\* carries an expiry claim that is strictly after the current time, and true
\* when the claim equals the current time, is before it or is absent; a held
\* token without an expiry claim makes every login() start an exchange.
C9_ExpiryPredicate ==
    /\ [] ( (bearerToken # "" /\ Decodable(bearerToken)) =>
              /\ tokenExpired(bearerToken, now) \in {"true", "false"}
              /\ (tokenExpired(bearerToken, now) = "false"
                    <=> ExpiryAfter(bearerToken, now))
              /\ (~CarriesExp(bearerToken)
                    => tokenExpired(bearerToken, now) = "true")
              /\ (ExpiryAtOrBefore(bearerToken, now)
                    => tokenExpired(bearerToken, now) = "true") )
    /\ [][ \A c \in Calls :
             (Login(c) /\ bearerToken # "" /\ Decodable(bearerToken))
             => /\ (~ExpiryAfter(bearerToken, now) => ExchangeStep(c))
                /\ (ExpiryAfter(bearerToken, now) => CacheHitStep(c)) ]_vars

\* C9 witness: a login() that started an exchange although the held token's
\* claim equals the current time, after an earlier login() had been a cache hit
C9_Witness ==
    /\ bearerToken # "" /\ CarriesExp(bearerToken)
    /\ JwtPayload(bearerToken).exp * 1000 = now
    /\ \E c \in Calls : IsLogin(c) /\ calls[c].nreq = 1 /\ calls[c].pc = "exchange"
    /\ \E c \in Calls : IsLogin(c) /\ calls[c].nreq = 0 /\ calls[c].pc = "resolved"

\* C10: every resource request carries, as its bearer credential, exactly
\* the token the operation's own login() resolved to.
C10_BearerAttached ==
    \A c \in Calls :
        (calls[c].op # "login" /\ calls[c].rnreq > 0) =>
            /\ calls[c].rreq.hasAuth
            /\ calls[c].tok # ""
            /\ calls[c].rreq.bearer = calls[c].tok

\* the call reached login(): a request was sent, or login() settled
LoginCalled(c) == calls[c].nreq > 0 \/ calls[c].tok # "" \/ calls[c].lerr # ""

IsResourceCall(c) == calls[c].op \notin {"", "login"}

\* C11: a resource operation issues its own request only after its own
\* login() has resolved with a token, and issues none while login() is
\* pending or after it has rejected; the methods of the resource objects
\* reach login() through their client.
C11_LoginBeforeRequest ==
    \A c \in Calls :
        IsResourceCall(c) =>
            /\ (calls[c].rnreq > 0 => calls[c].tok # "")
            /\ ((calls[c].pc = "exchange" \/ calls[c].lerr # "") => calls[c].rnreq = 0)
            /\ (OpOf(calls[c].op).self # "TDAPI" => LoginCalled(c))

\* C12: when the exchange inside a resource operation's login() fails with
\* error E, the operation's promise is rejected with E and never resolves.
C12_AuthFailureSurfaces ==
    \A c \in Calls :
        (IsResourceCall(c) /\ calls[c].lerr \in TransportErrors /\ calls[c].pc # "catch") =>
            /\ calls[c].pc = "rejected"
            /\ calls[c].err = calls[c].lerr

\* the login() calls whose exchange is outstanding
Outstanding == { c \in Calls : IsLogin(c) /\ calls[c].pc = "exchange" }

\* the calls made so far
Started == { c \in Calls : calls[c].pc # "idle" }

\* C13: when k login() calls have been started with no valid token held and
\* none of their exchanges has completed, exactly k exchanges have been
\* issued, one per call.
C13_NoSingleFlight ==
    (Started = Outstanding /\ (bearerToken = "" \/ ~ExpiryAfter(bearerToken, now))) =>
        /\ \A c \in Outstanding :
             /\ calls[c].nreq = 1
             /\ calls[c].req = [method |-> "POST",
                                url |-> <<baseUrl, "/auth",
                                          IF "BEID" \in { p[1] : p \in credentials }
                                          THEN "/loginadmin" ELSE "/login">>,
                                form |-> credentials]
        /\ TotalExchanges = Cardinality(Outstanding)

\* C13 witness: two login() calls with their exchanges outstanding at once
C13_Witness ==
    /\ Started = Outstanding
    /\ Cardinality(Outstanding) >= 2
    /\ TotalExchanges = Cardinality(Outstanding)

\* C14: when the exchanges of concurrent login() calls complete, the stored
\* token after the last response is the token of that response.
C14_LastWriteWins ==
    [][ \A c \in Calls, t \in ServerTokens :
          ( /\ ExchangeOk(c, t) /\ IsLogin(c)
            /\ Outstanding = {c}
            /\ \E d \in Calls \ {c} : IsLogin(d) /\ calls[d].pc = "resolved"
                                      /\ calls[d].nreq = 1 )
          => bearerToken' = t ]_vars

\* C15: after construction no login() call and no resource operation,
\* successful or failed, changes the client's credentials or its baseUrl.
C15_ConfigImmutable ==
    /\ [][credentials' = credentials /\ baseUrl' = baseUrl]_vars
    /\ [] ( /\ credentials = (IF config.hasCredentials THEN config.credentials
                              ELSE { <<"UserName", "">>, <<"Password", "">> })
            /\ baseUrl = (IF config.hasBaseUrl THEN config.baseUrl
                          ELSE "https://api.teamdynamix.com/TDWebAPI/api") )

\* C15 witness: a failed login() next to a resource operation that resolved
C15_Witness ==
    /\ \E c \in Calls : calls[c].pc = "rejected" /\ calls[c].lerr \in TransportErrors
    /\ \E c \in Calls : IsResourceCall(c) /\ calls[c].pc = "resolved"
                        /\ calls[c].rnreq = 1

\* C16: a fresh client holds no token, so its first login() performs an
\* exchange; a configuration without credentials gives the client empty
\* UserName and Password, and that first exchange goes to /auth/login.
C16_InitialSession ==
    /\ (Started = {} => bearerToken = "")
    /\ ((calls[1].pc # "idle" /\ IsLogin(1)) => calls[1].nreq = 1)
    /\ (~config.hasCredentials =>
          /\ credentials = { <<"UserName", "">>, <<"Password", "">> }
          /\ ((calls[1].pc # "idle" /\ IsLogin(1)) =>
                /\ calls[1].req.method = "POST"
                /\ calls[1].req.url = <<baseUrl, "/auth", "/login">>
                /\ calls[1].req.form = { <<"UserName", "">>, <<"Password", "">> }))

\* C16 witness: the first login() of a client configured without credentials
\* has sent its exchange
C16_Witness ==
    /\ ~config.hasCredentials
    /\ IsLogin(1) /\ calls[1].nreq = 1

\* what login() of the second module does where login() of the first is called
Login2Outcome(c) ==
    LoginExecutor2([calls[c] EXCEPT !.op = "login"],
                   bearerToken, credentials, baseUrl, now)

\* the held token gives no expiry claim: it has none, or it does not decode
LacksExpiryClaim(t) == t # "" /\ ~CarriesExp(t)

\* C17 as stated: for a held token without a decodable expiry claim the two
\* top-level modules differ, one login() starts an exchange on every call
\* and the other keeps returning the held token.
C17_ModulesDiffer ==
    [][ \A c \in Calls :
          (Login(c) /\ LacksExpiryClaim(bearerToken))
          => ( (calls'[c].pc = "exchange" /\ Login2Outcome(c).pc = "resolved")
               \/ (calls'[c].pc = "resolved" /\ Login2Outcome(c).pc = "exchange") ) ]_vars

\* C17 amended: the two top-level modules decide alike for every held token
\* and clock reading; for a decodable token without an expiry claim login()
\* starts an exchange on every call in both, and for a token that does not
\* decode login() rejects in both.
C17_ModulesAgree ==
    [][ \A c \in Calls :
          Login(c) =>
            /\ calls'[c] = Login2Outcome(c)
            /\ ((LacksExpiryClaim(bearerToken) /\ Decodable(bearerToken))
                  => (calls'[c].pc = "exchange" /\ calls'[c].nreq = 1))
            /\ ((bearerToken # "" /\ ~Decodable(bearerToken))
                  => (calls'[c].pc = "rejected" /\ calls'[c].nreq = 0)) ]_vars

\* C17 witness: with a decodable token without expiry claim held, every
\* login() made so far has started its own exchange
C17_Witness ==
    /\ LacksExpiryClaim(bearerToken) /\ Decodable(bearerToken)
    /\ Cardinality(Started) >= 2
    /\ \A c \in Started : IsLogin(c) /\ calls[c].nreq = 1

\* C18: once its login() has resolved, editAccount(id, account) has sent a
\* PUT to {baseUrl}/accounts/{id} that carries the bearer token.
C18_EditAccountUrl ==
    \A c \in Calls :
        (calls[c].op = "editAccount" /\ calls[c].tok # "" /\ calls[c].pc # "then") =>
            /\ calls[c].rnreq = 1
            /\ calls[c].rreq.method = "PUT"
            /\ calls[c].rreq.url = <<baseUrl, "/accounts/", "id">>
            /\ calls[c].rreq.hasAuth
            /\ calls[c].rreq.bearer = calls[c].tok

\* the calls that invoked login(): login() itself and the operations whose
\* receiver expression yields the client
LoginCalls ==
    { c \in Started : IsLogin(c) \/ LoginReachable(OpOf(calls[c].op)) }

\* C19: in every state reachable from construction through login() calls
\* and resource operations the token field is still the constructor's empty
\* string, the cache-hit branch is never taken and the number of exchanges
\* issued equals the number of login() calls made.
C19_TokenNeverStored ==
    /\ bearerToken = ""
    /\ \A c \in LoginCalls : calls[c].nreq = 1
    /\ TotalExchanges = Cardinality(LoginCalls)

\* C19 witness: a login() and a resource operation have both completed
\* their exchange successfully
C19_Witness ==
    /\ \E c \in Calls : IsLogin(c) /\ calls[c].pc = "resolved" /\ calls[c].tok # ""
    /\ \E c \in Calls : IsResourceCall(c) /\ calls[c].tok # ""
    /\ TotalExchanges = 2

\* C20: a login() that performs an exchange resolves to the response of its
\* own exchange, unmodified, and the response settles no other call.
C20_OwnResponse ==
    [][ \A c \in Calls, t \in ServerTokens :
          (ExchangeOk(c, t) /\ IsLogin(c))
          => ( /\ calls'[c].pc = "resolved"
               /\ calls'[c].value = t
               /\ \A d \in Calls \ {c} : calls'[d] = calls[d] ) ]_vars

\* C20 witness: two login() calls that were outstanding together have
\* resolved to different tokens, each after one exchange
C20_Witness ==
    \E c, d \in Calls :
        /\ c # d /\ IsLogin(c) /\ IsLogin(d)
        /\ calls[c].pc = "resolved" /\ calls[d].pc = "resolved"
        /\ calls[c].nreq = 1 /\ calls[d].nreq = 1
        /\ calls[c].value # calls[d].value

\* the promise of call c is resolved with a token and carries no error
ResolvedWithToken(c) ==
    calls[c].pc = "resolved" /\ calls[c].value \in Tokens /\ calls[c].err = ""

\* the promise of call c is rejected with an error and carries no value
RejectedWithError(c) ==
    calls[c].pc = "rejected" /\ calls[c].err # "" /\ calls[c].value = ""

\* C21: every login() call settles exactly once.  With a transport that
\* eventually answers, a started login() is eventually resolved with a token
\* or rejected with an error; a settled call is one or the other, never both,
\* and never changes again; and a login() made while the held token is
\* unexpired is resolved in the step that calls it, with no request.
C21_SettlesOnce ==
    /\ \A c \in Calls :
         (IsLogin(c) /\ calls[c].pc # "idle")
           ~> (ResolvedWithToken(c) \/ RejectedWithError(c))
    /\ [](\A c \in Calls :
            /\ ~(ResolvedWithToken(c) /\ RejectedWithError(c))
            /\ (IsLogin(c) /\ Settled(c))
                 => (ResolvedWithToken(c) \/ RejectedWithError(c)))
    /\ [][ \A c \in Calls : (IsLogin(c) /\ Settled(c)) => calls'[c] = calls[c] ]_vars
    /\ [][ \A c \in Calls :
             (Login(c) /\ bearerToken # "" /\ ExpiryAfter(bearerToken, now))
             => (ResolvedWithToken(c)' /\ calls'[c].nreq = 0) ]_vars

\* C21 witness: one login() resolved on the cache-hit branch without a
\* request, another settled by the answer to its exchange
C21_Witness ==
    \E c, d \in Calls :
        /\ IsLogin(c) /\ ResolvedWithToken(c) /\ calls[c].nreq = 0
        /\ IsLogin(d) /\ calls[d].nreq = 1
        /\ (ResolvedWithToken(d) \/ RejectedWithError(d))

\* call c invokes a method of a resource object (Asset, Ticket, User,
\* Account, Location, Article) built by the client
IsResourceObjectCall(c) ==
    IsResourceCall(c) /\ OpOf(calls[c].op).self # "TDAPI"

\* C22: invoking a method of a resource object never throws synchronously;
\* every failure, failure to reach login() included, is a rejection of the
\* returned promise.
C22_NoSynchronousThrow ==
    \A c \in Calls :
        IsResourceObjectCall(c)
        => ( /\ calls[c].pc # "threw"
             /\ calls[c].err = TypeError => calls[c].pc = "rejected" )

\* operation of call c is a promise chain ending in .catch(handleError)
IsPromiseChain(c) == IsResourceCall(c) /\ OpOf(calls[c].op).style = "then-catch"

\* C23: for every promise-chain operation whose login() succeeded, when its
\* own request fails with error e the operation's promise is rejected with
\* that same e, exactly one resource request has been issued, and no further
\* authentication exchange is made.
C23_FailurePropagates ==
    [][ \A c \in Calls, e \in TransportErrors :
          (ResourceFail(c, e) /\ IsPromiseChain(c) /\ calls[c].tok # "")
          => ( /\ calls'[c].pc = "rejected"
               /\ calls'[c].err = e
               /\ calls'[c].value = ""
               /\ calls'[c].rnreq = 1
               /\ calls'[c].nreq = calls[c].nreq
               /\ TotalExchanges' = TotalExchanges ) ]_vars

\* C23 witness: a promise-chain operation whose login() resolved to a token
\* and whose one resource request failed
C23_Witness ==
    \E c \in Calls :
        /\ IsPromiseChain(c) /\ calls[c].pc = "rejected"
        /\ calls[c].tok \in ServerTokens /\ calls[c].nreq = 1
        /\ calls[c].rnreq = 1 /\ calls[c].err \in TransportErrors

\* C24: expiry is monotone in time.  For the held token, once tokenExpired
\* reports it expired at the current time it reports it expired at every
\* later time, and no step that keeps the held token takes it from expired
\* back to valid.
C24_ExpiryMonotone ==
    /\ [](\A n \in now..MaxNow :
            tokenExpired(bearerToken, now) = "true"
            => tokenExpired(bearerToken, n) = "true")
    /\ [][ (tokenExpired(bearerToken, now) = "true" /\ bearerToken' = bearerToken)
           => tokenExpired(bearerToken', now') = "true" ]_vars

\* C24 witness: the held token was valid for an earlier login(), the clock
\* has passed its expiry claim, and a later login() found it expired
C24_Witness ==
    \E c, d \in Calls :
        /\ CarriesExp(bearerToken) /\ JwtPayload(bearerToken).exp > 0
        /\ now > JwtPayload(bearerToken).exp * 1000
        /\ tokenExpired(bearerToken, now) = "true"
        /\ IsLogin(c) /\ calls[c].pc = "resolved" /\ calls[c].nreq = 0
        /\ calls[c].value = bearerToken
        /\ IsLogin(d) /\ calls[d].nreq = 1

\* the values a client's token slot can hold: no token, or one token
OneSlot == Tokens \cup {""}

\* C25: at most one token is held per client.  The slot of each client holds
\* no token or exactly one token; when the slot changes, it changes from the
\* previous token to the one token an exchange of that client returned; and
\* no step of one client changes the slot or the calls of the other.
C25_OneTokenPerClient ==
    /\ [](bearerToken \in OneSlot /\ peer.bearerToken \in OneSlot)
    /\ [][ /\ bearerToken' # bearerToken
              => \E c \in Calls, t \in ServerTokens :
                   ExchangeOk(c, t) /\ bearerToken' = t
           /\ peer.bearerToken' # peer.bearerToken
              => \E c \in PeerCalls, t \in ServerTokens :
                   PeerExchangeOk(c, t) /\ peer.bearerToken' = t
           /\ calls' # calls => peer' = peer
           /\ peer' # peer => (bearerToken' = bearerToken /\ calls' = calls) ]_vars

\* C25 witness: a login() of each client went through its own exchange, the
\* two were answered with different tokens, and the two slots differ
C25_Witness ==
    \E c \in Calls, d \in PeerCalls :
        /\ IsLogin(c) /\ calls[c].pc = "resolved" /\ calls[c].nreq = 1
        /\ peer.calls[d].pc = "resolved" /\ peer.calls[d].nreq = 1
        /\ calls[c].value # peer.calls[d].value
        /\ bearerToken # peer.bearerToken

\* the list operations of the root client
RootListOps == { "getUsers", "getAccounts", "searchAccounts", "getAssets" }

\* value v is an array of n resource objects of class cl bound to the client
\* the call was made on
IsArrayOfObjects(v, n, cl) ==
    /\ v.kind = "array"
    /\ Len(v.items) = n
    /\ \A i \in 1..n : v.items[i].class = cl /\ v.items[i].client = Client

\* the outcome of a list operation that does not depend on the fields: an
\* array response of n items gives n objects, a response that is not an
\* array is resolved unchanged, or to undefined by User.getTickets
ListShape(c, b) ==
    /\ calls'[c].pc = "resolved"
    /\ b.isArray => IsArrayOfObjects(calls'[c].value, Len(b.items), OpOf(calls[c].op).wrap)
    /\ (~b.isArray /\ calls[c].op \in RootListOps) => calls'[c].value = ResponseValue(b)
    /\ (~b.isArray /\ calls[c].op = "User.getTickets") => calls'[c].value = UndefinedValue

\* C26 as stated: a list operation answered with an array of n items resolves
\* to n resource objects in the same order, each bound to the calling client
\* and carrying the fields of its item; a response that is not an array is
\* resolved unchanged, and to undefined by User.getTickets.
C26_ListWrapAllFields ==
    [][ \A c \in Calls, b \in ListBodies :
          (ResourceOk(c, b) /\ calls[c].op \in RootListOps \cup {"User.getTickets"})
          => ( /\ ListShape(c, b)
               /\ b.isArray => \A i \in 1..Len(b.items) :
                                 calls'[c].value.items[i].fields = b.items[i] ) ]_vars

\* the properties objects the constructors are called with for response b
InputsOf(b) == IF b.isArray THEN b.items ELSE <<b.fields>>

\* the classes whose init copies every field
CopyAllClasses == { "User", "Ticket", "Location", "Asset", "Article" }

\* C27: an Account built from a properties object holds exactly those fields
\* of the input whose names are in validAccountAttributes, each with the
\* input's value, and no other field; a User, Ticket, Location, Asset or
\* Article built from a properties object holds every field of the input.
C27_AccountWhitelist ==
    [][ \A c \in Calls, b \in ListBodies \cup ObjectBodies :
          (ResourceOk(c, b) /\ calls'[c].value.kind \in {"array", "object"})
          => ( /\ Len(calls'[c].value.items) = Len(InputsOf(b))
               /\ \A i \in 1..Len(InputsOf(b)) :
                    LET obj   == calls'[c].value.items[i]
                        props == InputsOf(b)[i]
                    IN  IF obj.class = "Account"
                        THEN /\ \A p \in obj.fields :
                                  p \in props /\ p[1] \in validAccountAttributes
                             /\ \A p \in props :
                                  p[1] \in validAccountAttributes => p \in obj.fields
                        ELSE obj.class \in CopyAllClasses /\ obj.fields = props ) ]_vars

====
